---- MODULE Spec2Model ----
(***************************************************************************)
(* A state-machine model of the Lox scanner of pox (src/src/pox/scanner.py) *)
(* One Scanner object is constructed over a source text and scanTokens is  *)
(* called on it.  A step of the model is one iteration of the main loop of *)
(* scanTokens up to the point where it enters an inner loop, one iteration *)
(* of an inner loop (comment, string, number, identifier), or the code     *)
(* that follows an inner loop.                                             *)
(*                                                                         *)
(* A source text is a sequence of characters; a character is a one-        *)
(* character string, except for three characters outside ASCII, which are  *)
(* written by name:                                                        *)
(*   "SUP2"    U+00B2 SUPERSCRIPT TWO       isdigit, not decimal, no alpha *)
(*   "ARABIC3" U+0663 ARABIC-INDIC DIGIT 3  isdigit, decimal,     no alpha *)
(*   "EACUTE"  U+00E9 LATIN SMALL E ACUTE   isalpha                        *)
(* Indices are those of the code: 0-based, slices half-open.               *)
(*                                                                         *)
(* Four specifications:                                                    *)
(*   Spec       one Scanner and one call of scanTokens                     *)
(*   FairSpec   Spec, with the call run to its end                         *)
(*   SpecCalls  one Scanner and up to MaxCalls calls of scanTokens         *)
(*   SpecLox    the interpreter of src/src/pox/lox.py: main, __run_file,   *)
(*              __run_prompt and __run, with a new Scanner for each source *)
(***************************************************************************)
EXTENDS Integers, Sequences, FiniteSets, TLC

\* ------------------------------------------------------------- bounds

\* Longest source drawn from the whole alphabet.
MaxLenAll == 2

\* Longest source drawn from one of the small alphabets below.
MaxLen == 5

\* Most calls of scanTokens on one Scanner.
MaxCalls == 3

\* Longest line typed at the prompt.
MaxLineLen == 3

\* ---------------------------------------------------------- characters

Punctuators == {"(", ")", "{", "}", ",", ".", "-", "+", ";", "*"}
Operators   == {"!", "=", "<", ">"}
Blanks      == {" ", "\r", "\t"}
AsciiDigits == {"0", "1", "2", "3", "4", "5", "6", "7", "8", "9"}
Letters     == {"a", "f", "o", "r", "O"}

\* The characters sources are drawn from.
Alphabet ==
    Punctuators \cup Operators \cup Blanks \cup Letters
        \cup {"/", "\n", "\"", "0", "1", "_", "@", "\\", "SUP2", "ARABIC3", "EACUTE"}

NumberChars == {"0", "1", ".", "SUP2", "ARABIC3", " "}
IdentChars  == {"o", "r", "f", "O", "_", "1", " "}
StringChars == {"\"", "\n", "a", "\\", "/", "("}
OperChars   == {"!", "=", "<", ">", "/", "\n"}

SeqsUpTo(S, n) == UNION {[1..k -> S] : k \in 0..n}

\* The characters of the lines typed at the prompt.
LineChars == {"1", "SUP2", "\"", "@", "o", "/"}

\* input() returns the line without its newline.
Lines == SeqsUpTo(LineChars, MaxLineLen)

Sources ==
    SeqsUpTo(Alphabet, MaxLenAll)
        \cup SeqsUpTo(NumberChars, MaxLen) \cup SeqsUpTo(IdentChars, MaxLen)
        \cup SeqsUpTo(StringChars, MaxLen) \cup SeqsUpTo(OperChars, MaxLen)

\* What __peek and __peekNext return at the end of the source: "\0".
NUL == "NUL"

\* str.isalpha on one character.
IsAlpha(c) == c \in Letters \cup {"EACUTE"}

\* str.isdigit on one character.
IsDigit(c) == c \in AsciiDigits \cup {"SUP2", "ARABIC3"}

\* The characters float() reads as a decimal digit, and their values.
IsDecimal(c) == c \in AsciiDigits \cup {"ARABIC3"}

DigitValue(c) ==
    CASE c = "0" -> 0 [] c = "1" -> 1 [] c = "2" -> 2 [] c = "3" -> 3
      [] c = "4" -> 4 [] c = "5" -> 5 [] c = "6" -> 6 [] c = "7" -> 7
      [] c = "8" -> 8 [] c = "9" -> 9 [] c = "ARABIC3" -> 3

\* s[a:b] of the code, for 0 <= a and b <= len(s) (empty when b <= a).
Slice(s, a, b) == SubSeq(s, a + 1, b)

\* ------------------------------------------------------------- tokens

None == [kind |-> "None"]

\* SingleCharTokens with the types of "-" and "+" exchanged.
SingleCharTokensSwapped ==
    "(" :> "LEFT_PAREN" @@ ")" :> "RIGHT_PAREN" @@ "{" :> "LEFT_BRACE"
        @@ "}" :> "RIGHT_BRACE" @@ "," :> "COMMA" @@ "." :> "DOT"
        @@ "-" :> "PLUS" @@ "+" :> "MINUS" @@ ";" :> "SEMICOLON" @@ "*" :> "STAR"

SingleCharTokens ==
    "(" :> "LEFT_PAREN" @@ ")" :> "RIGHT_PAREN" @@ "{" :> "LEFT_BRACE"
        @@ "}" :> "RIGHT_BRACE" @@ "," :> "COMMA" @@ "." :> "DOT"
        @@ "-" :> "MINUS" @@ "+" :> "PLUS" @@ ";" :> "SEMICOLON" @@ "*" :> "STAR"

OneCharOperator ==
    "!" :> "BANG" @@ "=" :> "EQUAL" @@ "<" :> "LESS" @@ ">" :> "GREATER"

TwoCharOperator ==
    "!" :> "BANG_EQUAL" @@ "=" :> "EQUAL_EQUAL" @@ "<" :> "LESS_EQUAL"
        @@ ">" :> "GREATER_EQUAL"

KEYWORDS ==
    <<"a", "n", "d">> :> "AND" @@ <<"c", "l", "a", "s", "s">> :> "CLASS"
        @@ <<"e", "l", "s", "e">> :> "ELSE" @@ <<"f", "a", "l", "s", "e">> :> "FALSE"
        @@ <<"f", "o", "r">> :> "FOR" @@ <<"f", "u", "n">> :> "FUN"
        @@ <<"i", "f">> :> "IF" @@ <<"n", "i", "l">> :> "NIL"
        @@ <<"o", "r">> :> "OR" @@ <<"p", "r", "i", "n", "t">> :> "PRINT"
        @@ <<"r", "e", "t", "u", "r", "n">> :> "RETURN"
        @@ <<"s", "u", "p", "e", "r">> :> "SUPER" @@ <<"t", "h", "i", "s">> :> "THIS"
        @@ <<"t", "r", "u", "e">> :> "TRUE" @@ <<"v", "a", "r">> :> "VAR"
        @@ <<"w", "h", "i", "l", "e">> :> "WHILE"

Token(type, lexeme, literal, line) ==
    [type |-> type, lexeme |-> lexeme, literal |-> literal, line |-> line]

ScannerError(line, message) ==
    [type |-> "ScannerError", line |-> line, message |-> message]

\* -------------------------------------------------------------- state

VARIABLES
    source,     \* Scanner.source
    tokens,     \* Scanner.tokens
    start,      \* Scanner.start
    current,    \* Scanner.current
    line,       \* Scanner.line
    pc,         \* where the call of scanTokens is
    err,        \* the exception that ended the call, or None
    result,     \* the list the last call that returned has returned, or None
    calls,      \* how many calls of scanTokens the Scanner's user has made
    lpc,        \* where the Lox interpreter is ("none": no interpreter)
    hadError,   \* Lox.hadError
    printed     \* the lines printed since the last source was read

\* The state of the Scanner's caller, which no step of the Scanner changes.
callerVars == <<calls, lpc, hadError, printed>>

vars == <<source, tokens, start, current, line, pc, err, result,
          calls, lpc, hadError, printed>>

\* Scanner(code), with scanTokens about to be called.
Init ==
    /\ source \in Sources
    /\ tokens = <<>>
    /\ start = 0
    /\ current = 0
    /\ line = 1
    /\ pc = "loop"
    /\ err = None
    /\ result = None
    /\ calls = 1
    /\ lpc = "none"
    /\ hadError = FALSE
    /\ printed = <<>>

\* IsAtEnd with the test off by one: the end is seen one character too late.
IsAtEndPastEnd == current > Len(source)

IsAtEnd == current >= Len(source)

Peek == IF IsAtEnd THEN NUL ELSE source[current + 1]

PeekNext == IF current + 1 >= Len(source) THEN NUL ELSE source[current + 2]

\* Match comparing the character before the cursor, not the one at it.
MatchPrevious(expected, cur) == ~(cur >= Len(source)) /\ source[cur] = expected

\* __match(expected) called with the cursor at cur: what it returns.  When it
\* returns True it has moved the cursor to cur + 1.
Match(expected, cur) == ~(cur >= Len(source)) /\ source[cur + 1] = expected

\* AddToken leaving the lexeme of a keyword's token empty.
AddTokenDropsKeywordLexeme(tokentype, literal, s, c, l) ==
    Append(tokens,
           Token(tokentype,
                 IF \E w \in DOMAIN KEYWORDS : KEYWORDS[w] = tokentype
                    THEN <<>> ELSE Slice(source, s, c),
                 literal, l))

\* The token list after __addToken(tokentype, literal), called with
\* self.start = s, self.current = c and self.line = l.
AddToken(tokentype, literal, s, c, l) ==
    Append(tokens, Token(tokentype, Slice(source, s, c), literal, l))

\* Raise with the EOF token added on the way out, as a finally clause would.
RaiseAfterEof(e) ==
    /\ pc' = "raised"
    /\ err' = e
    /\ tokens' = Append(tokens, Token("EOF", <<>>, None, line))
    /\ UNCHANGED <<source, start, current, line, result>>
    /\ UNCHANGED callerVars

\* An exception leaves scanTokens: the object keeps the state it had.
Raise(e) ==
    /\ pc' = "raised"
    /\ err' = e
    /\ UNCHANGED <<source, tokens, start, current, line, result>>
    /\ UNCHANGED callerVars

\* source[self.current] in __advance with the cursor at the end of the source.
IndexError == [type |-> "IndexError"]

\* float(text) on a text that is no number.
ValueError == [type |-> "ValueError"]

\* float(s): whether it returns, for a text s made of "." and of characters
\* str.isdigit accepts (all that __number passes to it).
FloatParses(s) ==
    /\ \A i \in 1..Len(s) : s[i] = "." \/ IsDecimal(s[i])
    /\ \E i \in 1..Len(s) : IsDecimal(s[i])
    /\ Cardinality({i \in 1..Len(s) : s[i] = "."}) <= 1

RECURSIVE DigitsValue(_)
DigitsValue(d) ==
    IF d = <<>> THEN 0
    ELSE 10 * DigitsValue(SubSeq(d, 1, Len(d) - 1)) + DigitValue(d[Len(d)])

RECURSIVE Normalize(_, _)
Normalize(n, k) ==
    IF k > 0 /\ n % 10 = 0 THEN Normalize(n \div 10, k - 1) ELSE <<n, k>>

\* float(s) where it returns: the pair <<n, k>> stands for n / 10^k, with k
\* the least possible, so that equal pairs are equal numbers (texts this short
\* are far from the precision of a float).
FloatValue(s) ==
    LET dots == {i \in 1..Len(s) : s[i] = "."}
        dot  == IF dots = {} THEN Len(s) + 1 ELSE CHOOSE i \in dots : TRUE
        int  == SubSeq(s, 1, dot - 1)
        frac == SubSeq(s, dot + 1, Len(s))
    IN  Normalize(DigitsValue(int \o frac), Len(frac))

Number(value) == [kind |-> "float", value |-> value]

String(value) == [kind |-> "str", value |-> value]

\* ----------------------------------------------------------- scanTokens

\* ScanTokensReturn with the append of the EOF token left out.
ScanTokensReturnNoEof ==
    /\ pc = "loop"
    /\ IsAtEnd
    /\ result' = tokens
    /\ pc' = "returned"
    /\ UNCHANGED <<source, tokens, start, current, line, err>>
    /\ UNCHANGED callerVars

\* The while loop's else branch: the EOF token is appended and the list returned.
ScanTokensReturn ==
    /\ pc = "loop"
    /\ IsAtEnd
    /\ tokens' = Append(tokens, Token("EOF", <<>>, None, line))
    /\ result' = tokens'
    /\ pc' = "returned"
    /\ UNCHANGED <<source, start, current, line, err>>
    /\ UNCHANGED callerVars

\* ---------------------------------------------------------- __scanToken
\* In the cases below c is the character __advance returned, start is already
\* the index of c and the cursor is at start + 1.

\* case "(" ... case "*": one token of the character's type.
ScanPunctuator(c) ==
    /\ current' = current + 1
    /\ tokens' = AddToken(SingleCharTokens[c], None, start', current', line)
    /\ UNCHANGED <<line, pc, err>>

\* case "!", "=", "<", ">": __match("=") chooses the token's type.
ScanOperator(c) ==
    /\ current' = IF Match("=", current + 1) THEN current + 2 ELSE current + 1
    /\ tokens' = AddToken(IF Match("=", current + 1)
                             THEN TwoCharOperator[c] ELSE OneCharOperator[c],
                          None, start', current', line)
    /\ UNCHANGED <<line, pc, err>>

\* ScanSlash with no token for a "/" that starts no comment.
ScanSlashDropsSlash ==
    /\ IF Match("/", current + 1)
          THEN /\ current' = current + 2
               /\ pc' = "comment"
               /\ UNCHANGED tokens
          ELSE /\ current' = current + 1
               /\ UNCHANGED <<tokens, pc>>
    /\ UNCHANGED <<line, err>>

\* case "/": a second "/" starts a comment, otherwise a SLASH token.
ScanSlash ==
    /\ IF Match("/", current + 1)
          THEN /\ current' = current + 2
               /\ pc' = "comment"
               /\ UNCHANGED tokens
          ELSE /\ current' = current + 1
               /\ tokens' = AddToken("SLASH", None, start', current', line)
               /\ UNCHANGED pc
    /\ UNCHANGED <<line, err>>

\* case " ", "\r", "\t": nothing.
ScanBlank ==
    /\ current' = current + 1
    /\ UNCHANGED <<tokens, line, pc, err>>

\* ScanNewline without the line counter's increment.
ScanNewlineKeepsLine ==
    /\ current' = current + 1
    /\ UNCHANGED <<tokens, line, pc, err>>

\* case "\n": the line counter goes up.
ScanNewline ==
    /\ current' = current + 1
    /\ line' = line + 1
    /\ UNCHANGED <<tokens, pc, err>>

\* case '"', a digit, a letter or "_": the lexeme's own function is entered.
ScanLonger(where) ==
    /\ current' = current + 1
    /\ pc' = where
    /\ UNCHANGED <<tokens, line, err>>

\* ScanUnexpected passing over the character as if it were a blank.
ScanUnexpectedSkips(c) ==
    /\ current' = current + 1
    /\ UNCHANGED <<tokens, line, pc, err>>

\* case _: ScannerError for a character that starts no token.
ScanUnexpected(c) ==
    /\ current' = current + 1
    /\ pc' = "raised"
    /\ err' = ScannerError(line, <<"Unexpected character: ", c>>)
    /\ UNCHANGED <<tokens, line>>

\* One turn of the while loop of scanTokens, up to the first test of an inner
\* loop: start = current, c = __advance(), and the match statement on c.
ScanToken ==
    /\ pc = "loop"
    /\ ~IsAtEnd
    /\ IF current >= Len(source)
          THEN /\ pc' = "crashed"
               /\ err' = IndexError
               /\ start' = current
               /\ UNCHANGED <<tokens, current, line>>
          ELSE /\ start' = current
               /\ LET c == source[current + 1] IN
                    CASE c \in DOMAIN SingleCharTokens -> ScanPunctuator(c)
                      [] c \in DOMAIN OneCharOperator -> ScanOperator(c)
                      [] c = "/" -> ScanSlash
                      [] c \in Blanks -> ScanBlank
                      [] c = "\n" -> ScanNewline
                      [] c = "\"" -> ScanLonger("string")
                      [] c \in AsciiDigits -> ScanLonger("number")
                      [] OTHER ->
                           IF IsAlpha(c) \/ c = "_"
                              THEN ScanLonger("identifier")
                              ELSE ScanUnexpected(c)
    /\ UNCHANGED <<source, result>>
    /\ UNCHANGED callerVars

\* __advance inside one of the inner loops: the cursor moves by one, and the
\* line counter becomes l.
Advance(l) ==
    /\ IF current >= Len(source)
          THEN /\ pc' = "crashed"
               /\ err' = IndexError
               /\ UNCHANGED <<source, tokens, start, current, line, result>>
          ELSE /\ current' = current + 1
               /\ line' = l
               /\ UNCHANGED <<source, tokens, start, pc, err, result>>
    /\ UNCHANGED callerVars

\* CommentStep with a loop that looks only for the end of the source.
CommentStepEatsNewline ==
    /\ pc = "comment"
    /\ ~IsAtEnd
    /\ Advance(line)

\* The comment's loop: one character that is not a newline is consumed.
CommentStep ==
    /\ pc = "comment"
    /\ Peek # "\n" /\ ~IsAtEnd
    /\ Advance(line)

\* The comment's loop ends before a newline or at the end of the source.
CommentEnd ==
    /\ pc = "comment"
    /\ ~(Peek # "\n" /\ ~IsAtEnd)
    /\ pc' = "loop"
    /\ UNCHANGED <<source, tokens, start, current, line, err, result>>
    /\ UNCHANGED callerVars

\* ------------------------------------------------------------ __string

\* StringStep without the count of the newlines inside the string.
StringStepKeepsLine ==
    /\ pc = "string"
    /\ Peek # "\"" /\ ~IsAtEnd
    /\ Advance(line)

\* The string's loop: one character that is not the closing quote is consumed,
\* and a newline raises the line counter.
StringStep ==
    /\ pc = "string"
    /\ Peek # "\"" /\ ~IsAtEnd
    /\ Advance(IF Peek = "\n" THEN line + 1 ELSE line)

\* The loop ended at the end of the source: no closing quote.
StringUnterminated ==
    /\ pc = "string"
    /\ ~(Peek # "\"" /\ ~IsAtEnd)
    /\ IsAtEnd
    /\ Raise(ScannerError(line, <<"Unterminated string at end of file.">>))

\* StringClose with the two quotes left in the literal.
StringCloseKeepsQuotes ==
    /\ pc = "string"
    /\ ~(Peek # "\"" /\ ~IsAtEnd)
    /\ ~IsAtEnd
    /\ current' = current + 1
    /\ tokens' = AddToken("STRING", String(Slice(source, start, current')),
                          start, current', line)
    /\ pc' = "loop"
    /\ UNCHANGED <<source, start, line, err, result>>
    /\ UNCHANGED callerVars

\* The loop ended at the closing quote: it is consumed and the token added.
StringClose ==
    /\ pc = "string"
    /\ ~(Peek # "\"" /\ ~IsAtEnd)
    /\ ~IsAtEnd
    /\ IF current >= Len(source)
          THEN /\ pc' = "crashed"
               /\ err' = IndexError
               /\ UNCHANGED <<tokens, current>>
          ELSE /\ current' = current + 1
               /\ tokens' = AddToken("STRING",
                                     String(Slice(source, start + 1, current' - 1)),
                                     start, current', line)
               /\ pc' = "loop"
               /\ UNCHANGED err
    /\ UNCHANGED <<source, start, line, result>>
    /\ UNCHANGED callerVars

\* ------------------------------------------------------------ __number

\* The first loop: one more digit of the integer part.
NumberStep ==
    /\ pc = "number"
    /\ IsDigit(Peek)
    /\ Advance(line)

\* After the first loop: a "." with a digit after it is consumed.
NumberDot ==
    /\ pc = "number"
    /\ ~IsDigit(Peek)
    /\ Peek = "." /\ IsDigit(PeekNext)
    /\ IF current >= Len(source)
          THEN /\ pc' = "crashed"
               /\ err' = IndexError
               /\ UNCHANGED current
          ELSE /\ current' = current + 1
               /\ pc' = "fraction"
               /\ UNCHANGED err
    /\ UNCHANGED <<source, tokens, start, line, result>>
    /\ UNCHANGED callerVars

\* The second loop: one more digit of the fraction.
FractionStep ==
    /\ pc = "fraction"
    /\ IsDigit(Peek)
    /\ Advance(line)

\* value = float(source[start:current]), then the NUMBER token is added.
NumberEnd ==
    /\ \/ pc = "number" /\ ~IsDigit(Peek) /\ ~(Peek = "." /\ IsDigit(PeekNext))
       \/ pc = "fraction" /\ ~IsDigit(Peek)
    /\ LET text == Slice(source, start, current) IN
        IF FloatParses(text)
           THEN /\ tokens' = AddToken("NUMBER", Number(FloatValue(text)),
                                      start, current, line)
                /\ pc' = "loop"
                /\ UNCHANGED err
           ELSE /\ pc' = "crashed"
                /\ err' = ValueError
                /\ UNCHANGED tokens
    /\ UNCHANGED <<source, start, current, line, result>>
    /\ UNCHANGED callerVars

\* -------------------------------------------------------- __identifier

\* The loop: one more letter, digit or underscore.
IdentifierStep ==
    /\ pc = "identifier"
    /\ IsAlpha(Peek) \/ IsDigit(Peek) \/ Peek = "_"
    /\ Advance(line)

\* IdentifierEnd taking a text that starts with a keyword for the keyword.
IdentifierEndByPrefix ==
    /\ pc = "identifier"
    /\ ~(IsAlpha(Peek) \/ IsDigit(Peek) \/ Peek = "_")
    /\ LET text == Slice(source, start, current)
           found == {w \in DOMAIN KEYWORDS :
                        Len(w) <= Len(text) /\ SubSeq(text, 1, Len(w)) = w}
           token_type == IF found # {}
                            THEN KEYWORDS[CHOOSE w \in found : TRUE] ELSE "IDENTIFIER"
       IN  tokens' = AddToken(token_type, None, start, current, line)
    /\ pc' = "loop"
    /\ UNCHANGED <<source, start, current, line, err, result>>
    /\ UNCHANGED callerVars

\* IdentifierEnd with the text passed on as the token's literal.
IdentifierEndWithLiteral ==
    /\ pc = "identifier"
    /\ ~(IsAlpha(Peek) \/ IsDigit(Peek) \/ Peek = "_")
    /\ LET text == Slice(source, start, current)
           token_type == IF text \in DOMAIN KEYWORDS
                            THEN KEYWORDS[text] ELSE "IDENTIFIER"
       IN  tokens' = AddToken(token_type, String(text), start, current, line)
    /\ pc' = "loop"
    /\ UNCHANGED <<source, start, current, line, err, result>>
    /\ UNCHANGED callerVars

\* The text is looked up in KEYWORDS (KeyError: IDENTIFIER) and the token added.
IdentifierEnd ==
    /\ pc = "identifier"
    /\ ~(IsAlpha(Peek) \/ IsDigit(Peek) \/ Peek = "_")
    /\ LET text == Slice(source, start, current)
           token_type == IF text \in DOMAIN KEYWORDS
                            THEN KEYWORDS[text] ELSE "IDENTIFIER"
       IN  tokens' = AddToken(token_type, None, start, current, line)
    /\ pc' = "loop"
    /\ UNCHANGED <<source, start, current, line, err, result>>
    /\ UNCHANGED callerVars

\* ---------------------------------------------------------------- runs

Next ==
    \/ ScanTokensReturn
    \/ ScanToken
    \/ CommentStep
    \/ CommentEnd
    \/ StringStep
    \/ StringUnterminated
    \/ StringClose
    \/ NumberStep
    \/ NumberDot
    \/ FractionStep
    \/ NumberEnd
    \/ IdentifierStep
    \/ IdentifierEnd

Spec == Init /\ [][Next]_vars

\* The interpreter runs the call without pause: a step that can be taken is
\* taken.
FairSpec == Spec /\ WF_vars(Next)

\* ------------------------------------------------------ repeated calls

\* scanTokens is called again on the same Scanner, after a call that returned
\* or one that an exception left: the object keeps its source, its cursor,
\* its line counter and its list of tokens.
ScanTokensAgain ==
    /\ pc \in {"returned", "raised", "crashed"}
    /\ calls < MaxCalls
    /\ calls' = calls + 1
    /\ pc' = "loop"
    /\ err' = None
    /\ UNCHANGED <<source, tokens, start, current, line, result>>
    /\ UNCHANGED <<lpc, hadError, printed>>

NextCalls ==
    \/ Next
    \/ ScanTokensAgain

\* One Scanner, and up to MaxCalls calls of scanTokens on it.
SpecCalls == Init /\ [][NextCalls]_vars

\* ------------------------------------------------------------- lox.py

\* str(token): "{type} {lexeme} {literal}"; the token's line is not in it.
\* str(None) is the text None, the str of a str is the str itself.
TokenStr(t) ==
    <<t.type, " ", t.lexeme, " ",
      IF t.literal = None THEN <<"N", "o", "n", "e">>
      ELSE IF t.literal.kind = "str" THEN t.literal.value
      ELSE t.literal>>

\* The message of Lox.__report: "[line {line}] Error{where}: {message}".
ReportMsg(l, where, message) == <<"[line ", l, "] Error", where, ": ", message>>

\* Lox(): hadError is False, nothing is scanned and nothing printed yet.
InitLox ==
    /\ source = <<>>
    /\ tokens = <<>>
    /\ start = 0
    /\ current = 0
    /\ line = 1
    /\ pc = "none"
    /\ err = None
    /\ result = None
    /\ calls = 0
    /\ lpc = "main"
    /\ hadError = FALSE
    /\ printed = <<>>

\* __run up to the call of scanTokens: Scanner(code) is a new Scanner.
RunScanner(code) ==
    /\ source' = code
    /\ tokens' = <<>>
    /\ start' = 0
    /\ current' = 0
    /\ line' = 1
    /\ pc' = "loop"
    /\ err' = None
    /\ result' = None
    /\ calls' = 1

\* main with more than one argument: the usage line and exit status 64.
MainUsage ==
    /\ lpc = "main"
    /\ printed' = Append(printed, <<"Usage: my_python_lox [script]">>)
    /\ lpc' = "exit64"
    /\ UNCHANGED <<source, tokens, start, current, line, pc, err, result, calls, hadError>>

\* main with one argument: __run_file reads the file and calls __run.
MainRunFile ==
    /\ lpc = "main"
    /\ \E code \in Sources : RunScanner(code)
    /\ lpc' = "run_file"
    /\ UNCHANGED <<hadError, printed>>

\* main with no argument: __run_prompt and its first prompt.
MainRunPrompt ==
    /\ lpc = "main"
    /\ lpc' = "prompt"
    /\ UNCHANGED <<source, tokens, start, current, line, pc, err, result, calls,
                   hadError, printed>>

\* input("> ") returns a line and __run is called with it.
PromptRead ==
    /\ lpc = "prompt"
    /\ \E code \in Lines : RunScanner(code)
    /\ lpc' = "run_prompt"
    /\ printed' = <<>>
    /\ UNCHANGED hadError

\* input("> ") raises KeyboardInterrupt or EOFError: sys.exit(64).
PromptEnd ==
    /\ lpc = "prompt"
    /\ lpc' = "exit64"
    /\ UNCHANGED <<source, tokens, start, current, line, pc, err, result, calls,
                   hadError, printed>>

\* Where __run returns to.
AfterRun == IF lpc = "run_file" THEN "ran_file" ELSE "ran_prompt"

\* RunError that also prints the tokens the Scanner had when it raised.
RunErrorPrintsTokens ==
    /\ lpc \in {"run_file", "run_prompt"}
    /\ pc = "raised"
    /\ err.type = "ScannerError"
    /\ printed' = printed \o [i \in DOMAIN tokens |-> TokenStr(tokens[i])]
                     \o <<ReportMsg(err.line, "", err.message)>>
    /\ hadError' = TRUE
    /\ lpc' = AfterRun
    /\ UNCHANGED <<source, tokens, start, current, line, pc, err, result, calls>>

\* except ScannerError: error(e.line, e.message) prints the message of
\* __report and sets hadError.
RunError ==
    /\ lpc \in {"run_file", "run_prompt"}
    /\ pc = "raised"
    /\ err.type = "ScannerError"
    /\ printed' = Append(printed, ReportMsg(err.line, "", err.message))
    /\ hadError' = TRUE
    /\ lpc' = AfterRun
    /\ UNCHANGED <<source, tokens, start, current, line, pc, err, result, calls>>

\* else: every token of the returned list is printed.
RunPrint ==
    /\ lpc \in {"run_file", "run_prompt"}
    /\ pc = "returned"
    /\ printed' = printed \o [i \in DOMAIN result |-> TokenStr(result[i])]
    /\ lpc' = AfterRun
    /\ UNCHANGED <<source, tokens, start, current, line, pc, err, result, calls,
                   hadError>>

\* An exception that is no ScannerError leaves __run, and neither
\* __run_prompt (which catches KeyboardInterrupt and EOFError) nor __run_file
\* nor main catches it.
RunCrash ==
    /\ lpc \in {"run_file", "run_prompt"}
    /\ pc = "crashed"
    /\ lpc' = "died"
    /\ UNCHANGED <<source, tokens, start, current, line, pc, err, result, calls,
                   hadError, printed>>

\* __run_prompt after __run: hadError is reset and the loop goes on.
PromptReset ==
    /\ lpc = "ran_prompt"
    /\ hadError' = FALSE
    /\ lpc' = "prompt"
    /\ UNCHANGED <<source, tokens, start, current, line, pc, err, result, calls,
                   printed>>

\* __run_file after __run: sys.exit(65) if hadError, otherwise it returns.
FileEnd ==
    /\ lpc = "ran_file"
    /\ lpc' = IF hadError THEN "exit65" ELSE "exit0"
    /\ UNCHANGED <<source, tokens, start, current, line, pc, err, result, calls,
                   hadError, printed>>

NextLox ==
    \/ MainUsage
    \/ MainRunFile
    \/ MainRunPrompt
    \/ PromptRead
    \/ PromptEnd
    \/ Next
    \/ RunError
    \/ RunPrint
    \/ RunCrash
    \/ PromptReset
    \/ FileEnd

\* The interpreter: main, and the Scanner of each call of __run.
SpecLox == InitLox /\ [][NextLox]_vars

\* -------------------------------------------------------------- claims

Last(s) == s[Len(s)]

\* The number of newline characters in source[0:i].
NewlinesBefore(i) == Cardinality({j \in 1..i : source[j] = "\n"})

\* A step that appends one token, which is not the EOF token.
AddsToken == Len(tokens') = Len(tokens) + 1 /\ Last(tokens').type # "EOF"

\* C1: when scanTokens returns, the returned list is not empty, its last
\* element is an EOF token with an empty lexeme and no literal, and no element
\* before the last is an EOF token.
C1_EofLastAndOnlyLast ==
    pc = "returned" =>
        /\ Len(result) >= 1
        /\ Last(result).type = "EOF"
        /\ Last(result).lexeme = <<>>
        /\ Last(result).literal = None
        /\ \A i \in 1..(Len(result) - 1) : result[i].type # "EOF"

\* A return with two tokens before the EOF token.
C1_Witness == pc = "returned" /\ Len(result) = 3 /\ result[3].type = "EOF"

\* C2: every token that is not the EOF token has as its line 1 plus the
\* number of newlines before its first character, source[start].
C2_LineOfFirstCharacter ==
    [][AddsToken => Last(tokens').line = 1 + NewlinesBefore(start')]_vars

\* C3: scanTokens ends by returning or by raising ScannerError, never with
\* another exception.
C3_OnlyScannerError == pc # "crashed"

\* The reserved words of the language and the token type of each.
ReservedWordType ==
    <<"a", "n", "d">> :> "AND" @@ <<"c", "l", "a", "s", "s">> :> "CLASS"
        @@ <<"e", "l", "s", "e">> :> "ELSE" @@ <<"f", "a", "l", "s", "e">> :> "FALSE"
        @@ <<"f", "u", "n">> :> "FUN" @@ <<"f", "o", "r">> :> "FOR"
        @@ <<"i", "f">> :> "IF" @@ <<"n", "i", "l">> :> "NIL"
        @@ <<"o", "r">> :> "OR" @@ <<"p", "r", "i", "n", "t">> :> "PRINT"
        @@ <<"r", "e", "t", "u", "r", "n">> :> "RETURN"
        @@ <<"s", "u", "p", "e", "r">> :> "SUPER" @@ <<"t", "h", "i", "s">> :> "THIS"
        @@ <<"t", "r", "u", "e">> :> "TRUE" @@ <<"v", "a", "r">> :> "VAR"
        @@ <<"w", "h", "i", "l", "e">> :> "WHILE"

ReservedWords == DOMAIN ReservedWordType

KeywordTypes == {ReservedWordType[w] : w \in ReservedWords}

IsAlnum(c) == IsAlpha(c) \/ IsDigit(c) \/ c = "_"

\* A step that appends a token whose lexeme starts like an identifier.
AddsIdentifierShaped ==
    /\ AddsToken
    /\ Last(tokens').lexeme # <<>>
    /\ IsAlpha(Last(tokens').lexeme[1]) \/ Last(tokens').lexeme[1] = "_"

\* C4: a token whose lexeme starts with a letter or an underscore spans the
\* whole run of letters, digits and underscores from its first character; its
\* type is the keyword's when the lexeme is exactly a reserved word and
\* IDENTIFIER otherwise, also when a reserved word is a prefix of the lexeme.
C4_KeywordIffReservedWord ==
    [][AddsIdentifierShaped =>
        LET t == Last(tokens') IN
            /\ t.lexeme = Slice(source, start', current')
            /\ \A i \in 1..Len(t.lexeme) : IsAlnum(t.lexeme[i])
            /\ current' < Len(source) => ~IsAlnum(source[current' + 1])
            /\ t.lexeme \in ReservedWords <=> t.type \in KeywordTypes
            /\ t.lexeme \in ReservedWords => t.type = ReservedWordType[t.lexeme]
            /\ t.lexeme \notin ReservedWords => t.type = "IDENTIFIER"]_vars

\* The keyword or and the identifier Or, which differs from it by case.
C4_Witness ==
    /\ pc = "returned"
    /\ Len(result) = 3
    /\ result[1].type = "OR" /\ result[1].lexeme = <<"o", "r">>
    /\ result[2].type = "IDENTIFIER" /\ result[2].lexeme = <<"O", "r">>

\* C5: a token of type IDENTIFIER or of a keyword's type has as its lexeme
\* the text of the source from start to the cursor, which is not empty, and
\* has no literal; a keyword's token has the keyword as its lexeme.
C5_IdentifierLexemeKept ==
    [][AddsToken /\ Last(tokens').type \in KeywordTypes \cup {"IDENTIFIER"} =>
        LET t == Last(tokens') IN
            /\ t.lexeme = Slice(source, start', current')
            /\ start' < current'
            /\ t.literal = None
            /\ t.type \in KeywordTypes =>
                t.lexeme \in ReservedWords /\ ReservedWordType[t.lexeme] = t.type]_vars

\* The keyword for and an identifier, each with its text as its lexeme.
C5_Witness ==
    /\ pc = "returned"
    /\ Len(result) = 3
    /\ result[1].type = "FOR" /\ result[1].lexeme = <<"f", "o", "r">>
    /\ result[2].type = "IDENTIFIER" /\ result[2].lexeme = <<"_">>

\* The token types of "!", "=", "<" and ">" alone and followed by "=".
OneCharType(c) ==
    CASE c = "!" -> "BANG" [] c = "=" -> "EQUAL" [] c = "<" -> "LESS"
      [] c = ">" -> "GREATER"

TwoCharType(c) ==
    CASE c = "!" -> "BANG_EQUAL" [] c = "=" -> "EQUAL_EQUAL"
      [] c = "<" -> "LESS_EQUAL" [] c = ">" -> "GREATER_EQUAL"

\* C6: a lexeme that starts at "!", "=", "<" or ">" is one token: with "="
\* as the next character, the two-character token over both characters;
\* otherwise (another character or the end of the source) the one-character
\* token, with the cursor left on the next character.
C6_MaximalMunch ==
    [][pc = "loop" /\ current < Len(source) /\ source[current + 1] \in Operators =>
        LET c == source[current + 1]
            two == current + 1 < Len(source) /\ source[current + 2] = "="
        IN  /\ pc' = "loop"
            /\ tokens' = Append(tokens,
                 IF two THEN Token(TwoCharType(c), <<c, "=">>, None, line)
                        ELSE Token(OneCharType(c), <<c>>, None, line))
            /\ current' = IF two THEN current + 2 ELSE current + 1]_vars

\* "!==" scanned: BANG_EQUAL, then EQUAL at the end of the source.
C6_Witness ==
    /\ pc = "returned"
    /\ Len(result) = 3
    /\ result[1].type = "BANG_EQUAL" /\ result[1].lexeme = <<"!", "=">>
    /\ result[2].type = "EQUAL" /\ result[2].lexeme = <<"=">>

\* The end of the run of ASCII digits that starts at index i: the least index
\* from i on that holds no ASCII digit, or len(source).
AsciiRunEnd(i) ==
    LET stops == {j \in i..Len(source) :
                    j = Len(source) \/ source[j + 1] \notin AsciiDigits}
    IN  CHOOSE j \in stops : \A k \in stops : j <= k

\* C7: where the digits of a number are followed by ".", number scanning
\* ends with one NUMBER token: over the digits, the "." and the digits after
\* it when a digit follows the ".", and over the first digits alone when none
\* does, with the cursor left on the "."; and a "." that starts a lexeme is a
\* DOT token of its own.
C7_DotNeedsDigit ==
    /\ [][/\ pc \in {"number", "fraction"}
          /\ pc' \notin {"number", "fraction"}
          /\ AsciiRunEnd(start) < Len(source)
          /\ source[AsciiRunEnd(start) + 1] = "."
          => LET e == AsciiRunEnd(start)
                 end == IF e + 1 < Len(source) /\ source[e + 2] \in AsciiDigits
                           THEN AsciiRunEnd(e + 1) ELSE e
             IN  /\ pc' = "loop"
                 /\ current' = end
                 /\ Len(tokens') = Len(tokens) + 1
                 /\ Last(tokens').type = "NUMBER"
                 /\ Last(tokens').lexeme = Slice(source, start, end)]_vars
    /\ [][pc = "loop" /\ current < Len(source) /\ source[current + 1] = "."
          => /\ pc' = "loop"
             /\ current' = current + 1
             /\ tokens' = Append(tokens, Token("DOT", <<".">>, None, line))]_vars

\* The index of the first '"' after index s, when there is one.
HasQuoteAfter(s) == \E j \in (s + 1)..(Len(source) - 1) : source[j + 1] = "\""

FirstQuoteAfter(s) ==
    LET quotes == {j \in (s + 1)..(Len(source) - 1) : source[j + 1] = "\""}
    IN  CHOOSE j \in quotes : \A k \in quotes : j <= k

\* C8: a string whose opening quote, at start, has a quote after it: every
\* step of its scan either consumes one character before the first such
\* quote, adding no token and raising the line counter by one exactly when
\* the character is a newline, or consumes that quote and adds one STRING
\* token, whose lexeme runs from the opening quote through that quote and
\* whose literal is the text between the two, unchanged.
C8_StringToken ==
    [][pc = "string" /\ HasQuoteAfter(start) =>
        LET q == FirstQuoteAfter(start) IN
            \/ /\ pc' = "string"
               /\ current < q
               /\ current' = current + 1
               /\ tokens' = tokens
               /\ line' = IF source[current + 1] = "\n" THEN line + 1 ELSE line
            \/ /\ pc' = "loop"
               /\ current = q
               /\ current' = q + 1
               /\ line' = line
               /\ tokens' = Append(tokens,
                    Token("STRING", Slice(source, start, q + 1),
                          String(Slice(source, start + 1, q)), line))]_vars

\* A string with a backslash and a newline in it, scanned.
C8_Witness ==
    /\ pc = "returned"
    /\ Len(result) = 2
    /\ result[1].type = "STRING"
    /\ result[1].literal = String(<<"\\", "\n">>)
    /\ result[2].line = 2

\* The number of newline characters in the source.
Newlines == NewlinesBefore(Len(source))

\* C9: a string whose opening quote, at start, has no quote after it: its
\* scan always has a next step, and every step of it adds no token and
\* returns nothing, and either consumes one character or, at the end of the
\* source, raises ScannerError with the message "Unterminated string at end
\* of file." and as its line 1 plus the number of newlines in the source.
C9_UnterminatedString ==
    /\ [](pc = "string" /\ ~HasQuoteAfter(start) => ENABLED Next)
    /\ [][pc = "string" /\ ~HasQuoteAfter(start) =>
            /\ tokens' = tokens
            /\ result' = None
            /\ \/ /\ pc' = "string"
                  /\ current < Len(source)
                  /\ current' = current + 1
               \/ /\ pc' = "raised"
                  /\ current = Len(source)
                  /\ err' = ScannerError(1 + Newlines,
                                         <<"Unterminated string at end of file.">>)]_vars

\* An unterminated string with a newline in it, after a token on line 1: the
\* error's line is 2.
C9_Witness ==
    /\ pc = "raised"
    /\ err = ScannerError(2, <<"Unterminated string at end of file.">>)
    /\ source[start + 1] = "\"" /\ NewlinesBefore(start) = 0
    /\ Len(tokens) = 1
    /\ result = None

\* The characters that start a lexeme or are skipped.
StartsLexeme(c) ==
    \/ c \in Punctuators \cup Operators \cup Blanks \cup AsciiDigits
    \/ c \in {"/", "\n", "\"", "_"}
    \/ IsAlpha(c)

\* C10: a lexeme that starts at a character c which starts no token raises
\* ScannerError with the message "Unexpected character: " and c, and as its
\* line the line counter, which is 1 plus the number of newlines before c; it
\* adds no token and returns nothing.  For the source "@" the line is 1.
C10_UnexpectedCharacter ==
    /\ [][pc = "loop" /\ current < Len(source) /\ ~StartsLexeme(source[current + 1]) =>
            /\ pc' = "raised"
            /\ err' = ScannerError(line, <<"Unexpected character: ", source[current + 1]>>)
            /\ line = 1 + NewlinesBefore(current)
            /\ tokens' = tokens
            /\ result' = None]_vars
    /\ [](source = <<"@">> /\ pc # "loop" =>
            pc = "raised" /\ err = ScannerError(1, <<"Unexpected character: ", "@">>))

\* An unexpected character on the second line, after a token.
C10_Witness ==
    /\ pc = "raised"
    /\ err = ScannerError(2, <<"Unexpected character: ", "\\">>)
    /\ Len(tokens) = 1

\* C11: a "/" followed by a "/" starts a comment, which adds no token and
\* consumes the characters up to, and not including, the next newline or the
\* end of the source; the newline is left to the main loop, which consumes it
\* and adds one to the line counter.  A "/" not followed by a "/" adds one
\* SLASH token with the lexeme "/".
C11_Comment ==
    /\ [][pc = "loop" /\ current < Len(source) /\ source[current + 1] = "/" =>
            IF current + 1 < Len(source) /\ source[current + 2] = "/"
               THEN /\ pc' = "comment"
                    /\ current' = current + 2
                    /\ tokens' = tokens
                    /\ line' = line
               ELSE /\ pc' = "loop"
                    /\ current' = current + 1
                    /\ tokens' = Append(tokens, Token("SLASH", <<"/">>, None, line))]_vars
    /\ [][pc = "comment" =>
            /\ tokens' = tokens
            /\ line' = line
            /\ \/ /\ pc' = "comment"
                  /\ source[current + 1] # "\n"
                  /\ current' = current + 1
               \/ /\ pc' = "loop"
                  /\ current' = current
                  /\ current = Len(source) \/ source[current + 1] = "\n"]_vars
    /\ [][pc = "loop" /\ current < Len(source) /\ source[current + 1] = "\n" =>
            /\ pc' = "loop"
            /\ current' = current + 1
            /\ line' = line + 1
            /\ tokens' = tokens]_vars

\* A comment with a character, then a newline and a token on the second line.
C11_Witness ==
    /\ pc = "returned"
    /\ source = <<"/", "/", "a", "\n", "(">>
    /\ result = <<Token("LEFT_PAREN", <<"(">>, None, 2), Token("EOF", <<>>, None, 2)>>

\* C12: the line counter is 1 at the start, never goes down, and goes up by
\* one for each newline the cursor passes (in the main loop, after a comment
\* or inside a string), so it is always 1 plus the number of newlines consumed;
\* when scanTokens returns, the EOF token's line is 1 plus the number of
\* newlines of the source.
C12_LineCounter ==
    /\ [](line = 1 + NewlinesBefore(current))
    /\ [][/\ line' >= line
          /\ current' >= current
          /\ line' - line = NewlinesBefore(current') - NewlinesBefore(current)]_vars
    /\ [](pc = "returned" =>
            /\ Last(result).type = "EOF"
            /\ Last(result).line = Newlines + 1)

\* A newline inside a string and a newline in the main loop: EOF on line 3.
C12_Witness ==
    /\ pc = "returned"
    /\ source = <<"\"", "\n", "\"", "\n">>
    /\ Last(result) = Token("EOF", <<>>, None, 3)

\* The token has a literal exactly if it is a STRING (a str) or a NUMBER
\* (a float).
LiteralFitsType(t) ==
    /\ t.literal # None <=> t.type \in {"STRING", "NUMBER"}
    /\ t.type = "STRING" => t.literal.kind = "str"
    /\ t.type = "NUMBER" => t.literal.kind = "float"

\* C13: a token's literal is not None exactly if the token is a STRING or a
\* NUMBER; every other token, EOF included, has the literal None.  It holds of
\* the tokens of the Scanner at every moment and of the list it returns.
C13_LiteralPresence ==
    /\ \A i \in DOMAIN tokens : LiteralFitsType(tokens[i])
    /\ pc = "returned" =>
          /\ \A i \in DOMAIN result : LiteralFitsType(result[i])
          /\ Last(result).type = "EOF" /\ Last(result).literal = None

\* A NUMBER with its literal, an identifier and EOF without one.
C13_Witness ==
    /\ pc = "returned"
    /\ Len(result) = 3
    /\ result[1].type = "NUMBER" /\ result[1].literal = Number(<<1, 0>>)
    /\ result[2].type = "IDENTIFIER" /\ result[2].literal = None
    /\ result[3].literal = None

\* The token type the language gives each punctuation character.
PunctuationType(c) ==
    CASE c = "(" -> "LEFT_PAREN"
      [] c = ")" -> "RIGHT_PAREN"
      [] c = "{" -> "LEFT_BRACE"
      [] c = "}" -> "RIGHT_BRACE"
      [] c = "," -> "COMMA"
      [] c = "." -> "DOT"
      [] c = "-" -> "MINUS"
      [] c = "+" -> "PLUS"
      [] c = ";" -> "SEMICOLON"
      [] c = "*" -> "STAR"
      [] c = "/" -> "SLASH"

PunctuationChars == {"(", ")", "{", "}", ",", ".", "-", "+", ";", "*", "/"}

\* C14: for a source that is one punctuation character ( ) { } , . - + ; *
\* or a lone "/", scanTokens raises nothing, goes on until it returns, and
\* returns exactly two tokens: the character's token, with the character as
\* its lexeme, the literal None and line 1, and then EOF.
C14_SinglePunctuation ==
    Len(source) = 1 /\ source[1] \in PunctuationChars =>
        LET t == Token(PunctuationType(source[1]), source, None, 1)
        IN  /\ pc \in {"loop", "returned"}
            /\ pc = "loop" => ENABLED Next
            /\ pc = "loop" /\ current = 1 => tokens = <<t>>
            /\ pc = "returned" => result = <<t, Token("EOF", <<>>, None, 1)>>

\* The lone "/" has been scanned and the two tokens returned.
C14_Witness ==
    /\ pc = "returned"
    /\ source = <<"/">>
    /\ result = <<Token("SLASH", <<"/">>, None, 1), Token("EOF", <<>>, None, 1)>>

\* C15: the scan stops at the first lexical error.  No lexeme that starts at
\* a character which starts no token, and no string without its closing quote,
\* is passed over; the step that raises ScannerError adds no token; in the
\* state it leaves, the error is the one of the lexeme the scan had reached
\* (an unexpected character at start, or a string from start to the end of
\* the source), no EOF token is in the list, nothing is returned, and no step
\* follows.
C15_StopsAtFirstError ==
    /\ [][pc = "loop" /\ current < Len(source) /\ ~StartsLexeme(source[current + 1]) =>
            pc' = "raised"]_vars
    /\ [][pc = "string" /\ ~HasQuoteAfter(start) => pc' \in {"string", "raised"}]_vars
    /\ [][pc' = "raised" => pc # "raised" /\ tokens' = tokens /\ result' = None]_vars
    /\ [][pc # "raised"]_vars
    /\ [](pc = "raised" =>
            /\ result = None
            /\ \A i \in DOMAIN tokens : tokens[i].type # "EOF"
            /\ \/ /\ err = ScannerError(line, <<"Unexpected character: ", source[start + 1]>>)
                  /\ ~StartsLexeme(source[start + 1])
                  /\ current = start + 1
               \/ /\ err = ScannerError(line, <<"Unterminated string at end of file.">>)
                  /\ source[start + 1] = "\""
                  /\ ~HasQuoteAfter(start)
                  /\ current = Len(source))

\* The scan has stopped at an unexpected character after one token, and a
\* second unexpected character is in the rest of the source.
C15_Witness ==
    /\ pc = "raised"
    /\ Len(tokens) = 1
    /\ \E j \in (current + 1)..Len(source) : ~StartsLexeme(source[j])

\* C16: in every reachable state, those after a return or a raised
\* ScannerError included, 0 <= start <= current <= len(source); and __advance
\* is never called with the cursor at the end of the source, so the read of
\* source[current] never raises IndexError.
C16_CursorInvariant ==
    /\ 0 <= start
    /\ start <= current
    /\ current <= Len(source)
    /\ err # IndexError

\* The cursor has reached the end of a source inside a lexeme: an unterminated
\* string that began after the start of the source.
C16_Witness ==
    /\ pc = "raised"
    /\ 0 < start
    /\ start < current
    /\ current = Len(source)

\* The text is ASCII digits with at most one ".", which has an ASCII digit
\* before it and after it.
IsAsciiNumberLexeme(text) ==
    /\ Len(text) > 0
    /\ \A i \in DOMAIN text : text[i] \in AsciiDigits \cup {"."}
    /\ Cardinality({i \in DOMAIN text : text[i] = "."}) <= 1
    /\ \A i \in DOMAIN text : text[i] = "." =>
          /\ 1 < i /\ text[i - 1] \in AsciiDigits
          /\ i < Len(text) /\ text[i + 1] \in AsciiDigits

\* C17: the lexeme of every NUMBER token is ASCII digits with at most one
\* ".", with an ASCII digit on each side of it: the scan of a number takes in
\* no character outside ASCII that str.isdigit accepts.
C17_AsciiNumberLexeme ==
    \A i \in DOMAIN tokens :
        tokens[i].type = "NUMBER" => IsAsciiNumberLexeme(tokens[i].lexeme)

\* The number of EOF tokens in a list of tokens.
EofCount(ts) == Cardinality({i \in DOMAIN ts : ts[i].type = "EOF"})

\* C18: after any number of calls of scanTokens on one Scanner, the list a
\* call returns (the Scanner's own list) holds exactly one EOF token, and a
\* call that follows a call that returned returns a list equal to the one
\* returned before.
C18_EofOncePerScanner ==
    /\ [](pc = "returned" => result = tokens /\ EofCount(result) = 1)
    /\ [][pc = "loop" /\ pc' = "returned" /\ result # None => result' = result]_vars

\* The positions of the interpreter inside the loop of __run_prompt.
InPromptLoop == {"prompt", "run_prompt", "ran_prompt"}

\* C19: at the prompt, a ScannerError on one line never ends the session:
\* __run comes back, hadError is reset and the next line is read; hadError
\* is False at every prompt; each line is scanned by a new Scanner (no token,
\* cursor at 0, line 1), whatever the line before left; and the loop is left
\* only from input(), by KeyboardInterrupt or EOFError, with exit status 64.
C19_PromptSurvivesErrors ==
    /\ [][lpc = "run_prompt" /\ pc = "raised" => lpc' = "ran_prompt"]_vars
    /\ [][lpc = "ran_prompt" => lpc' = "prompt" /\ hadError' = FALSE]_vars
    /\ [](lpc = "prompt" => hadError = FALSE)
    /\ [][lpc = "prompt" /\ lpc' = "run_prompt" =>
            /\ tokens' = <<>>
            /\ start' = 0 /\ current' = 0 /\ line' = 1
            /\ pc' = "loop"]_vars
    /\ [][~(lpc' \in InPromptLoop) /\ lpc \in InPromptLoop =>
            /\ lpc = "prompt"
            /\ lpc' = "exit64"]_vars

\* C20: when the scan raises ScannerError(line, message), __run prints the
\* one line "[line {line}] Error: {message}" and none of the tokens, sets
\* hadError and returns to its caller; when the scan returns, __run prints
\* each token of the list, in order, and leaves hadError as it was; while the
\* scan goes on nothing is printed and hadError does not change.
C20_RunReportsOrPrints ==
    /\ [][pc = "raised" /\ lpc \in {"run_file", "run_prompt"} =>
            /\ printed = <<>>
            /\ printed' = <<(<<"[line ", err.line, "] Error", "", ": ", err.message>>)>>
            /\ hadError' = TRUE
            /\ lpc' = (IF lpc = "run_file" THEN "ran_file" ELSE "ran_prompt")]_vars
    /\ [][pc = "returned" /\ lpc \in {"run_file", "run_prompt"} =>
            /\ printed = <<>>
            /\ Len(printed') = Len(result)
            /\ \A i \in DOMAIN result :
                  /\ printed'[i][1] = result[i].type
                  /\ printed'[i][3] = result[i].lexeme
            /\ hadError' = hadError
            /\ lpc' = (IF lpc = "run_file" THEN "ran_file" ELSE "ran_prompt")]_vars
    /\ [][lpc' = lpc /\ lpc \in {"run_file", "run_prompt"} =>
            printed' = printed /\ hadError' = hadError]_vars

\* A file whose second line has the error: one token was recognised before
\* it, and the one line printed is the error's.
C20_Witness ==
    /\ lpc = "ran_file"
    /\ hadError
    /\ Len(tokens) = 1
    /\ printed = <<(<<"[line ", 2, "] Error", "", ": ",
                      <<"Unexpected character: ", "\\">>>>)>>

\* The first index at or after i with a newline, or the length of the source:
\* where a comment that covers index i ends.
CommentEndFrom(i) ==
    LET stops == {j \in i..Len(source) : j = Len(source) \/ source[j + 1] = "\n"}
    IN  CHOOSE j \in stops : \A k \in stops : j <= k

\* The characters source[i:upto] are, in order, the lexemes of the tokens
\* ts[k], ts[k+1], ..., each of them not empty, with nothing between them
\* but spaces, carriage returns, tabs, newlines and // comments.
RECURSIVE Tiles(_, _, _, _)
Tiles(ts, i, k, upto) ==
    IF i >= upto
       THEN i = upto /\ k = Len(ts) + 1
       ELSE \/ /\ source[i + 1] \in {" ", "\r", "\t", "\n"}
               /\ Tiles(ts, i + 1, k, upto)
            \/ /\ i + 1 < upto
               /\ source[i + 1] = "/" /\ source[i + 2] = "/"
               /\ CommentEndFrom(i + 2) <= upto
               /\ Tiles(ts, CommentEndFrom(i + 2), k, upto)
            \/ /\ k <= Len(ts)
               /\ Len(ts[k].lexeme) > 0
               /\ i + Len(ts[k].lexeme) <= upto
               /\ ts[k].lexeme = Slice(source, i, i + Len(ts[k].lexeme))
               /\ Tiles(ts, i + Len(ts[k].lexeme), k + 1, upto)

\* C21: the lexemes tile the source.  When scanTokens returns, the tokens
\* before EOF are, in order, non-empty slices of the source over increasing
\* ranges that do not overlap, and every character outside them is a space,
\* a carriage return, a tab, a newline or part of a // comment.  During the
\* scan the same holds of the part of the source before the lexeme at hand,
\* and each token added has the lexeme source[start:current].
C21_LexemesTileSource ==
    /\ [](pc = "returned" =>
            /\ Last(result).type = "EOF"
            /\ \A i \in 1..(Len(result) - 1) : result[i].type # "EOF"
            /\ Tiles(SubSeq(result, 1, Len(result) - 1), 0, 1, Len(source)))
    /\ [](pc # "returned" =>
            Tiles(tokens, 0, 1, IF pc = "loop" THEN current ELSE start))
    /\ [][Len(tokens') = Len(tokens) + 1 /\ pc' # "returned" =>
            /\ start' < current'
            /\ Last(tokens').lexeme = Slice(source, start', current')]_vars

\* Two tokens with a newline between them, and a comment after them.
C21_Witness ==
    /\ pc = "returned"
    /\ source = <<"(", "\n", "a", "/", "/">>
    /\ Len(result) = 3
    /\ result[1].lexeme = <<"(">>
    /\ result[2].lexeme = <<"a">>

\* The inner loops of the Scanner.
InnerLoops == {"comment", "string", "number", "fraction", "identifier"}

\* A bound on the steps the call still has: two for each character left, and
\* the step that ends an inner loop or the call.
Rank ==
    2 * (Len(source) - current)
        + (IF pc \in InnerLoops THEN 2 ELSE IF pc = "loop" THEN 1 ELSE 0)

\* C22: scanTokens terminates on every source, by returning or by raising
\* ScannerError.  An iteration of the main loop, and one of an inner loop
\* (comment, string, number, identifier), moves current forward by at least
\* one; current never exceeds len(source); so every step lowers Rank, which
\* is never negative, and a call that has neither returned nor raised
\* ScannerError has a next step.
C22_Terminates ==
    /\ [][pc = "loop" /\ pc' # "returned" => current' > current]_vars
    /\ [][pc' = pc /\ pc \in InnerLoops => current' = current + 1]_vars
    /\ [](current <= Len(source))
    /\ [](Rank >= 0)
    /\ [][Rank' < Rank]_vars
    /\ [](pc \in {"returned", "raised"} \/ ENABLED Next)
    /\ <>(pc \in {"returned", "raised"})

====
